---- MODULE Spec2Model ----
(***************************************************************************)
(* Model of src/main.py (YouTube transcript extractor):                    *)
(*   - YouTubeTranscriptExtractor.get_transcript    (selection cascade)    *)
(*   - YouTubeTranscriptExtractor.format_transcript (formatter, chunker)   *)
(*   - YouTubeTranscriptExtractor.seconds_to_timestamp                     *)
(*   - YouTubeTranscriptExtractor.save_to_file and the output part of main *)
(* Strings are sequences of one-character strings, so that slicing,        *)
(* stripping, padding and splitting are computed and not assumed.          *)
(***************************************************************************)
EXTENDS Integers, Sequences, FiniteSets, TLC

VARIABLES
    \* ---- get_transcript ----
    catalog,        \* tracks of the video, in the provider's iteration order
    languages,      \* the preference list
    listFails,      \* TRUE when list_transcripts raises
    fetchOK,        \* the tracks whose fetch() succeeds
    enMatch,        \* what the provider's find_transcript(['en']) finds
    pc,             \* position in the running function
    idx,            \* index of the running for-loop
    result,         \* outcome of get_transcript
    \* ---- format_transcript and the output part of main ----
    transcript_data,    \* entries [start, text]
    include_timestamps,
    chunk_size,         \* optional integer
    output,             \* args.output: [given, name]
    video_id,
    formatted_text,     \* [kind, text, chunks]
    fs,                 \* file system: set of [name, content], one per name
    saved,              \* filenames returned by save_to_file, in order
    attempts,           \* [index, name] of each chunk handed to save_to_file
    exitCode,           \* absent while running, then 0 or 1
    stderr,             \* lines printed to sys.stderr
    \* ---- seconds_to_timestamp ----
    seconds,
    timestamp

cascadeVars == <<catalog, languages, listFails, fetchOK, enMatch, result>>
mainVars == <<transcript_data, include_timestamps, chunk_size, output, video_id,
              formatted_text, fs, saved, attempts, exitCode, stderr>>
tsVars == <<seconds, timestamp>>
vars == <<cascadeVars, mainVars, tsVars, pc, idx>>

None == "None"

----------------------------------------------------------------------------
(* Bounds *)
MaxTracks == 2
MaxPrefs == 2
MaxEntries == 2
MaxTextLen == 2
MaxChunkSize == 3
MaxWordLen == 4
MaxSeconds == 7400

----------------------------------------------------------------------------
(* Generic helpers *)

\* all sequences over S of length lo..hi
SeqsUpTo(S, lo, hi) == UNION {[1..n -> S] : n \in lo..hi}

\* sequences without repeated elements
NoDup(s) == \A a, b \in DOMAIN s : a # b => s[a] # s[b]

Range(s) == {s[k] : k \in DOMAIN s}

Min(S) == CHOOSE x \in S : \A y \in S : x <= y

----------------------------------------------------------------------------
(* The provider's catalog (youtube_transcript_api TranscriptList)          *)

Codes == {"en", "en-US", "es"}
Tracks == [language_code : Codes, is_generated : BOOLEAN]
NoTrack == [language_code |-> "none", is_generated |-> FALSE]

\* find_manually_created_transcript([lang]): exact code, manual tracks only
find_manually_created_transcript(cat, lang) ==
    LET m == {t \in Range(cat) : t.language_code = lang /\ ~t.is_generated}
    IN IF m = {} THEN NoTrack ELSE CHOOSE t \in m : TRUE

\* find_generated_transcript([lang]): exact code, generated tracks only
find_generated_transcript(cat, lang) ==
    LET g == {t \in Range(cat) : t.language_code = lang /\ t.is_generated}
    IN IF g = {} THEN NoTrack ELSE CHOOSE t \in g : TRUE

\* a regional variant of "en"
IsEnglishVariant(code) == code \in {"en-US"}

\* What find_transcript(['en']) may find: an exact "en" track, manual before
\* generated; without one, nothing, or (a locale-fuzzy provider) any
\* regional variant of "en".
find_transcript_en(cat) ==
    LET m == find_manually_created_transcript(cat, "en")
        g == find_generated_transcript(cat, "en")
    IN IF m # NoTrack THEN {m}
       ELSE IF g # NoTrack THEN {g}
       ELSE {NoTrack} \cup {t \in Range(cat) : IsEnglishVariant(t.language_code)}

\* transcript.fetch(): succeeds or raises
fetch(t) == t \in fetchOK

----------------------------------------------------------------------------
(* get_transcript                                                          *)

NoResult == [outcome |-> "none", track |-> NoTrack, language |-> None, source |-> None]
ErrorResult == [outcome |-> "error", track |-> NoTrack, language |-> None, source |-> None]
Return(t, lang, src) == [outcome |-> "ok", track |-> t, language |-> lang, source |-> src]

----------------------------------------------------------------------------
(* Values of the variables a specification does not use                    *)

\* an optional value (None or a value) is a sequence of length 0 or 1
Absent == <<>>
Some(v) == <<v>>

NoOutput == [given |-> FALSE, name |-> <<>>]
Unformatted == [kind |-> "none", text |-> <<>>, chunks |-> <<>>]

CascadeUnused ==
    /\ catalog = <<>> /\ languages = <<>> /\ listFails = FALSE /\ fetchOK = {}
    /\ enMatch = NoTrack /\ result = NoResult

MainIdle ==
    /\ transcript_data = <<>> /\ include_timestamps = FALSE /\ chunk_size = Absent
    /\ output = NoOutput /\ video_id = <<>> /\ formatted_text = Unformatted
    /\ fs = {} /\ saved = <<>> /\ attempts = <<>> /\ exitCode = Absent /\ stderr = <<>>

TimestampIdle == seconds = 0 /\ timestamp = <<>>

\* line 36: list_transcripts; a failure goes to the outer except (67-68)
ListTranscripts ==
    /\ pc = "list"
    /\ IF listFails
       THEN /\ result' = ErrorResult
            /\ pc' = "done"
            /\ idx' = idx
       ELSE /\ pc' = "manual"
            /\ idx' = 1
            /\ result' = result
    /\ UNCHANGED <<catalog, languages, listFails, fetchOK, enMatch>>

\* the bare except of lines 43, 51 and 58: a miss of the find and a failure
\* of the fetch both count as "continue"
AttemptSucceeds(t) == t # NoTrack /\ fetch(t)

\* lines 39-44: one iteration of the manual loop
TryManual ==
    /\ pc = "manual"
    /\ IF idx > Len(languages)
       THEN /\ pc' = "generated"
            /\ idx' = 1
            /\ result' = result
       ELSE LET lang == languages[idx]
                transcript == find_manually_created_transcript(catalog, lang)
            IN IF AttemptSucceeds(transcript)
               THEN /\ result' = Return(transcript, lang, "manual")
                    /\ pc' = "done"
                    /\ idx' = idx
               ELSE /\ idx' = idx + 1
                    /\ pc' = pc
                    /\ result' = result
    /\ UNCHANGED <<catalog, languages, listFails, fetchOK, enMatch>>

\* lines 47-52: one iteration of the generated loop
TryGenerated ==
    /\ pc = "generated"
    /\ IF idx > Len(languages)
       THEN /\ pc' = "fallback"
            /\ idx' = idx
            /\ result' = result
       ELSE LET lang == languages[idx]
                transcript == find_generated_transcript(catalog, lang)
            IN IF AttemptSucceeds(transcript)
               THEN /\ result' = Return(transcript, lang, "auto-generated")
                    /\ pc' = "done"
                    /\ idx' = idx
               ELSE /\ idx' = idx + 1
                    /\ pc' = pc
                    /\ result' = result
    /\ UNCHANGED <<catalog, languages, listFails, fetchOK, enMatch>>

\* lines 55-58: find_transcript(['en']); the language returned is the
\* literal 'en'
TryFallback ==
    /\ pc = "fallback"
    /\ IF AttemptSucceeds(enMatch)
       THEN /\ result' = Return(enMatch, "en", "fallback")
            /\ pc' = "done"
       ELSE /\ pc' = "available"
            /\ result' = result
    /\ UNCHANGED <<catalog, languages, listFails, fetchOK, enMatch, idx>>

HasAvailable_offByOne(available_transcripts) == Len(available_transcripts) > 1

\* line 61: a non-empty list is truthy
HasAvailable(available_transcripts) == Len(available_transcripts) > 0

\* lines 60-65, then 67-68: the first track of the catalog; its fetch is not
\* guarded, and "No transcripts available" is wrapped by the outer except
TryAvailable ==
    /\ pc = "available"
    /\ IF HasAvailable(catalog) /\ fetch(catalog[1])
       THEN result' = Return(catalog[1], catalog[1].language_code, "available")
       ELSE result' = ErrorResult
    /\ pc' = "done"
    /\ UNCHANGED <<catalog, languages, listFails, fetchOK, enMatch, idx>>

CascadeIdle ==
    /\ MainIdle
    /\ TimestampIdle

InitCascade ==
    /\ catalog \in {c \in SeqsUpTo(Tracks, 0, MaxTracks) : NoDup(c)}
    /\ languages \in SeqsUpTo(Codes, 0, MaxPrefs)
    /\ listFails \in BOOLEAN
    /\ fetchOK \in SUBSET Range(catalog)
    /\ enMatch \in find_transcript_en(catalog)
    /\ pc = "list"
    /\ idx = 0
    /\ result = NoResult
    /\ CascadeIdle

NextCascade ==
    \/ ListTranscripts /\ UNCHANGED <<mainVars, tsVars>>
    \/ TryManual /\ UNCHANGED <<mainVars, tsVars>>
    \/ TryGenerated /\ UNCHANGED <<mainVars, tsVars>>
    \/ TryFallback /\ UNCHANGED <<mainVars, tsVars>>
    \/ TryAvailable /\ UNCHANGED <<mainVars, tsVars>>

SpecCascade == InitCascade /\ [][NextCascade]_vars

----------------------------------------------------------------------------
(* Properties of get_transcript                                            *)

ProvenanceTags == {"manual", "auto-generated", "fallback", "available"}

\* positions of the preference list that have a manual / a generated track
ManualIdx == {k \in DOMAIN languages :
                 \E t \in Range(catalog) :
                     ~t.is_generated /\ t.language_code = languages[k]}
GeneratedIdx == {k \in DOMAIN languages :
                    \E t \in Range(catalog) :
                        t.is_generated /\ t.language_code = languages[k]}

EarliestManual == [language_code |-> languages[Min(ManualIdx)], is_generated |-> FALSE]
EarliestGenerated == [language_code |-> languages[Min(GeneratedIdx)], is_generated |-> TRUE]

\* the first track that an attempt of steps 1-3 finds, in cascade order
FirstFound ==
    IF ManualIdx # {} THEN EarliestManual
    ELSE IF GeneratedIdx # {} THEN EarliestGenerated
    ELSE enMatch

Returned == pc = "done" /\ result.outcome = "ok"

\* C1: a track returned for a non-empty preference list is the manual track
\* of the earliest preference entry that has one, tagged 'manual', even when
\* an earlier entry has a generated track; without any manual match it is
\* the generated track of the earliest entry that has one, tagged
\* 'auto-generated'.
C1_ManualBeforeGenerated ==
    (Returned /\ languages # <<>>) =>
        IF ManualIdx # {}
        THEN result.track = EarliestManual /\ result.source = "manual"
        ELSE (GeneratedIdx # {}) =>
                (result.track = EarliestGenerated /\ result.source = "auto-generated")

\* C2: with no manual or generated match for any preference entry, the
\* track returned is the provider's match for "en", tagged 'fallback', when
\* there is one, and the first track of the catalog, tagged 'available',
\* only when there is none; a returned track is always in the catalog and its
\* tag is one of the four provenance tags.
C2_FallbackThenAvailable ==
    Returned =>
        /\ result.track \in Range(catalog)
        /\ result.source \in ProvenanceTags
        /\ (ManualIdx = {} /\ GeneratedIdx = {}) =>
              IF enMatch # NoTrack
              THEN result.track = enMatch /\ result.source = "fallback"
              ELSE result.track = catalog[1] /\ result.source = "available"

\* C3: get_transcript ends in the error outcome, with no track and no tag,
\* whenever the catalog is empty or the listing fails; with a non-empty
\* catalog whose tracks can all be fetched it never ends in the error,
\* whatever the preference list.
C3_ErrorIffNothingToReturn ==
    pc = "done" =>
        /\ (listFails \/ catalog = <<>>) => result = ErrorResult
        /\ (~listFails /\ catalog # <<>> /\ Range(catalog) \subseteq fetchOK)
              => result.outcome = "ok"

C3_Witness ==
    /\ pc = "done" /\ ~listFails /\ catalog = <<>> /\ languages # <<>>
    /\ result.outcome = "error"

\* C4: when the first track found by steps 1-3 cannot be fetched, the
\* failure is reported: get_transcript ends in the error outcome and does
\* not return a lower-priority track.
C4_FetchFailureReported ==
    (pc = "done" /\ ~listFails /\ FirstFound # NoTrack /\ ~fetch(FirstFound))
        => result.outcome = "error"

\* C10: the language returned equals the language_code of the track
\* returned, for every provenance tag, also when the "en" fallback is
\* satisfied by a regional variant.
C10_LanguageIsTrackCode ==
    Returned => result.language = result.track.language_code

----------------------------------------------------------------------------
(* Strings: sequences of one-character strings                             *)

RECURSIVE Concat(_)
Concat(list) == IF list = <<>> THEN <<>> ELSE Head(list) \o Concat(Tail(list))

\* str.join
RECURSIVE join(_, _)
join(sep, list) ==
    IF list = <<>> THEN <<>>
    ELSE IF Len(list) = 1 THEN list[1]
    ELSE list[1] \o sep \o join(sep, Tail(list))

\* what str.strip() and the regular expression \s treat as whitespace
IsSpace(c) == c \in {" ", "\n", "\t"}

RECURSIVE lstrip(_)
lstrip(s) == IF s # <<>> /\ IsSpace(Head(s)) THEN lstrip(Tail(s)) ELSE s

RECURSIVE rstrip(_)
rstrip(s) ==
    IF s # <<>> /\ IsSpace(s[Len(s)]) THEN rstrip(SubSeq(s, 1, Len(s) - 1)) ELSE s

\* str.strip()
strip(s) == rstrip(lstrip(s))

\* line 83: re.sub(r'\s+', ' ', s): every maximal run of whitespace becomes
\* one space
RECURSIVE CollapseWhitespace(_)
CollapseWhitespace(s) ==
    IF s = <<>> THEN <<>>
    ELSE IF IsSpace(Head(s)) THEN <<" ">> \o CollapseWhitespace(lstrip(s))
    ELSE <<Head(s)>> \o CollapseWhitespace(Tail(s))

DigitChars == <<"0", "1", "2", "3", "4", "5", "6", "7", "8", "9">>

\* str(n) for n >= 0
RECURSIVE Digits(_)
Digits(n) ==
    IF n < 10 THEN <<DigitChars[n + 1]>>
    ELSE Digits(n \div 10) \o <<DigitChars[(n % 10) + 1]>>

Pad2_unpadded(n) == Digits(n)

\* the format specification :02d: zero-filled to a width of at least 2
Pad2(n) == IF n < 10 THEN <<"0">> \o Digits(n) ELSE Digits(n)

\* Python range(start, stop, step) for step # 0, as a sequence
RECURSIVE PyRange(_, _, _)
PyRange(start, stop, step) ==
    IF (step > 0 /\ start < stop) \/ (step < 0 /\ start > stop)
    THEN <<start>> \o PyRange(start + step, stop, step)
    ELSE <<>>

Slice_overlapping(s, lo, hi) ==
    SubSeq(s, lo + 1, IF hi + 1 < Len(s) THEN hi + 1 ELSE Len(s))

\* s[lo:hi] for 0 <= lo <= hi: the end is clamped to len(s)
Slice(s, lo, hi) == SubSeq(s, lo + 1, IF hi < Len(s) THEN hi ELSE Len(s))

\* Python truthiness of chunk_size: None and 0 are false, every other
\* integer (negative ones too) is true
Truthy(n) == n # Absent /\ n[1] # 0

----------------------------------------------------------------------------
(* seconds_to_timestamp, lines 92-101                                      *)

seconds_to_timestamp_minutesNotReduced(secs) ==
    LET hours == secs \div 3600
        minutes == secs \div 60
        sec == secs % 60
    IN IF hours > 0
       THEN Pad2(hours) \o <<":">> \o Pad2(minutes) \o <<":">> \o Pad2(sec)
       ELSE Pad2(minutes) \o <<":">> \o Pad2(sec)

seconds_to_timestamp(secs) ==
    LET hours == secs \div 3600
        minutes == (secs % 3600) \div 60
        sec == secs % 60
    IN IF hours > 0
       THEN Pad2(hours) \o <<":">> \o Pad2(minutes) \o <<":">> \o Pad2(sec)
       ELSE Pad2(minutes) \o <<":">> \o Pad2(sec)

SecondsToTimestamp ==
    /\ pc = "timestamp"
    /\ timestamp' = seconds_to_timestamp(seconds)
    /\ pc' = "done"
    /\ UNCHANGED <<seconds, idx>>

\* whole seconds beyond 99 hours
LargeSeconds == {359999, 360000, 363661}

InitTimestamp ==
    /\ seconds \in (0..MaxSeconds) \cup LargeSeconds
    /\ timestamp = <<>>
    /\ pc = "timestamp"
    /\ idx = 0
    /\ CascadeUnused
    /\ MainIdle

NextTimestamp == SecondsToTimestamp /\ UNCHANGED <<cascadeVars, mainVars>>

SpecTimestamp == InitTimestamp /\ [][NextTimestamp]_vars

----------------------------------------------------------------------------
(* format_transcript, lines 70-90                                          *)

\* lines 73-78
TimestampedLine(entry) ==
    <<"[">> \o seconds_to_timestamp(entry.start) \o <<"]", " ">> \o strip(entry.text)

TimestampedText(data) ==
    join(<<"\n">>, [k \in DOMAIN data |-> TimestampedLine(data[k])])

\* lines 81-83
PlainText(data) ==
    strip(CollapseWhitespace(join(<<" ">>, [k \in DOMAIN data |-> strip(data[k].text)])))

\* line 87
Chunks(text, size) ==
    LET starts == PyRange(0, Len(text), size)
    IN [k \in DOMAIN starts |-> Slice(text, starts[k], starts[k] + size)]

AsString(text) == [kind |-> "str", text |-> text, chunks |-> <<>>]
AsList(chunks) == [kind |-> "list", text |-> <<>>, chunks |-> chunks]

format_transcript(data, with_timestamps, size) ==
    LET text == IF with_timestamps THEN TimestampedText(data) ELSE PlainText(data)
    IN IF Truthy(size) /\ ~with_timestamps
       THEN AsList(Chunks(text, size[1]))
       ELSE AsString(text)

FormatTranscript ==
    /\ pc = "format"
    /\ formatted_text' = format_transcript(transcript_data, include_timestamps, chunk_size)
    /\ pc' = "formatted"
    /\ UNCHANGED <<transcript_data, include_timestamps, chunk_size, output, video_id,
                   fs, saved, attempts, exitCode, stderr, idx>>

TextChars == {"a", "b", " "}
Texts == SeqsUpTo(TextChars, 0, MaxTextLen)

\* entries are in ascending order of start: entry k starts at second
\* 3661 * (k - 1)
EntryList(texts) == [k \in DOMAIN texts |-> [start |-> 3661 * (k - 1), text |-> texts[k]]]

ChunkSizes == {Absent} \cup {Some(n) : n \in -1..MaxChunkSize}

InitFormat ==
    /\ \E n \in 0..MaxEntries : \E texts \in [1..n -> Texts] :
          transcript_data = EntryList(texts)
    /\ include_timestamps \in BOOLEAN
    /\ chunk_size \in ChunkSizes
    /\ output = NoOutput /\ video_id = <<>> /\ formatted_text = Unformatted
    /\ fs = {} /\ saved = <<>> /\ attempts = <<>> /\ exitCode = Absent /\ stderr = <<>>
    /\ pc = "format"
    /\ idx = 0
    /\ CascadeUnused
    /\ TimestampIdle

NextFormat == FormatTranscript /\ UNCHANGED <<cascadeVars, tsVars>>

SpecFormat == InitFormat /\ [][NextFormat]_vars

----------------------------------------------------------------------------
(* Properties of format_transcript and seconds_to_timestamp                *)

PositiveChunkSize == chunk_size # Absent /\ chunk_size[1] > 0

\* C5: with timestamps excluded and a positive chunk_size, the chunks are
\* consecutive slices of the plain text in order: their concatenation is the
\* text, every chunk but the last has exactly chunk_size characters, the
\* last has 1..chunk_size characters, and no chunk is empty.
C5_ChunksPartitionText ==
    (pc = "formatted" /\ ~include_timestamps /\ PositiveChunkSize) =>
        LET chunks == formatted_text.chunks
            n == Len(chunks)
        IN /\ formatted_text.kind = "list"
           /\ Concat(chunks) = PlainText(transcript_data)
           /\ \A k \in 1..n :
                 /\ Len(chunks[k]) >= 1
                 /\ Len(chunks[k]) <= chunk_size[1]
                 /\ (k < n) => Len(chunks[k]) = chunk_size[1]

C5_Witness ==
    /\ pc = "formatted" /\ ~include_timestamps /\ PositiveChunkSize
    /\ Len(formatted_text.chunks) >= 2
    /\ Len(formatted_text.chunks[Len(formatted_text.chunks)]) < chunk_size[1]

\* C6: the chunked form is returned exactly when timestamps are excluded
\* and a positive chunk size is supplied; with timestamps included, or a
\* chunk size that is absent, zero or negative, the single unchunked string
\* is returned and holds the whole text.
C6_ChunkedIffPlainAndPositive ==
    pc = "formatted" =>
        IF ~include_timestamps /\ PositiveChunkSize
        THEN formatted_text.kind = "list"
        ELSE /\ formatted_text.kind = "str"
             /\ formatted_text.text =
                   IF include_timestamps THEN TimestampedText(transcript_data)
                   ELSE PlainText(transcript_data)

\* the fields of a timestamp, split at ":"
RECURSIVE SplitColon(_)
SplitColon(s) ==
    IF \A k \in DOMAIN s : s[k] # ":" THEN <<s>>
    ELSE LET c == Min({k \in DOMAIN s : s[k] = ":"})
         IN <<SubSeq(s, 1, c - 1)>> \o SplitColon(SubSeq(s, c + 1, Len(s)))

DigitValue(c) == (CHOOSE d \in 1..10 : DigitChars[d] = c) - 1

RECURSIVE ParseInt(_)
ParseInt(s) ==
    IF s = <<>> THEN 0
    ELSE 10 * ParseInt(SubSeq(s, 1, Len(s) - 1)) + DigitValue(s[Len(s)])

AllDigits(s) == s # <<>> /\ \A k \in DOMAIN s : \E d \in 1..10 : DigitChars[d] = s[k]

\* C9: for whole seconds s >= 0 the timestamp has the fields hours = s div
\* 3600 (only when s >= 3600), minutes = (s mod 3600) div 60 and seconds =
\* s mod 60, each zero-padded to 2 digits, minutes and seconds in 0..59, and
\* hours*3600 + minutes*60 + seconds = s.
C9_TimestampFields ==
    (pc = "done" /\ timestamp # <<>>) =>
        LET f == SplitColon(timestamp)
            n == Len(f)
            h == IF n = 3 THEN ParseInt(f[1]) ELSE 0
            m == ParseInt(f[n - 1])
            sec == ParseInt(f[n])
        IN /\ n = (IF seconds >= 3600 THEN 3 ELSE 2)
           /\ \A k \in 1..n : AllDigits(f[k]) /\ Len(f[k]) >= 2
           /\ Len(f[n - 1]) = 2 /\ Len(f[n]) = 2
           /\ (n = 3 /\ h < 100) => Len(f[1]) = 2
           /\ h = seconds \div 3600
           /\ m = (seconds % 3600) \div 60 /\ m \in 0..59
           /\ sec = seconds % 60 /\ sec \in 0..59
           /\ h * 3600 + m * 60 + sec = seconds

C9_Witness ==
    /\ pc = "done" /\ seconds = 3661
    /\ timestamp = <<"0", "1", ":", "0", "1", ":", "0", "1">>

----------------------------------------------------------------------------
(* save_to_file (lines 103-114) and the output part of main (174-204)      *)
(* A filename is a sequence of tokens; "." and "/" are tokens of their own *)

RFind(p, c) == IF \E k \in DOMAIN p : p[k] = c
               THEN CHOOSE k \in DOMAIN p : p[k] = c /\ \A j \in DOMAIN p : p[j] = c => j <= k
               ELSE 0

\* os.path.splitext: the extension starts at the last "." of the last path
\* component, unless only dots precede it there
splitext(p) ==
    LET sepIndex == RFind(p, "/")
        dotIndex == RFind(p, ".")
    IN IF dotIndex > sepIndex /\ \E k \in (sepIndex + 1)..(dotIndex - 1) : p[k] # "."
       THEN [base |-> SubSeq(p, 1, dotIndex - 1), ext |-> SubSeq(p, dotIndex, Len(p))]
       ELSE [base |-> p, ext |-> <<>>]

\* args.output or <default>: None and "" are false
OutputGiven(out) == out.given /\ out.name # <<>>

ChunkFilename_sameForAll(i, n, out, vid) ==
    IF OutputGiven(out) THEN out.name
    ELSE <<"transcript_chunk_">> \o Digits(i) \o <<"_">> \o vid \o <<".", "txt">>

\* lines 186-189: the name of chunk i of n
ChunkFilename(i, n, out, vid) ==
    LET filename == IF OutputGiven(out) THEN out.name
                    ELSE <<"transcript_chunk_">> \o Digits(i) \o <<"_">> \o vid \o <<".", "txt">>
        sp == splitext(filename)
    IN IF n > 1
       THEN sp.base \o <<"_chunk_">> \o Digits(i) \o sp.ext
       ELSE filename

\* lines 105-107: the default name; <now> is the capture-time timestamp
SaveName(filename, vid) ==
    IF filename = <<>>
    THEN <<"youtube_transcript_">> \o vid \o <<"_", "<now>", ".", "txt">>
    ELSE filename

\* open(filename, 'w') replaces the file
WriteFile(files, name, content) ==
    {f \in files : f.name # name} \cup {[name |-> name, content |-> content]}

\* what a call of save_to_file can do: "ok", "open" (open raises, nothing
\* is changed) or <<"write", p>> (write raises after p characters)
SaveOutcomes(text) == {<<"ok", Len(text)>>, <<"open", 0>>}
                      \cup {<<"write", p>> : p \in 0..(Len(text) - 1)}

\* lines 109-114
save_to_file(files, text, filename, vid, outcome) ==
    LET name == SaveName(filename, vid)
    IN [ok |-> outcome[1] = "ok",
        name |-> name,
        files |-> IF outcome[1] = "open" THEN files
                  ELSE WriteFile(files, name, SubSeq(text, 1, outcome[2]))]

\* lines 176-180
MainFormat ==
    /\ pc = "main_format"
    /\ formatted_text' = format_transcript(transcript_data, include_timestamps, chunk_size)
    /\ pc' = "main_save"
    /\ idx' = 1
    /\ UNCHANGED <<transcript_data, include_timestamps, chunk_size, output, video_id,
                   fs, saved, attempts, exitCode, stderr>>

\* lines 185-192, and 202-204 when save_to_file raises
MainSaveChunk ==
    /\ pc = "main_save"
    /\ formatted_text.kind = "list"
    /\ idx <= Len(formatted_text.chunks)
    /\ LET chunk == formatted_text.chunks[idx]
           filename == ChunkFilename(idx, Len(formatted_text.chunks), output, video_id)
       IN \E outcome \in SaveOutcomes(chunk) :
            LET r == save_to_file(fs, chunk, filename, video_id, outcome)
            IN /\ attempts' = Append(attempts, [index |-> idx, name |-> r.name])
               /\ fs' = r.files
               /\ IF r.ok
                  THEN /\ saved' = Append(saved, r.name)
                       /\ idx' = idx + 1
                       /\ UNCHANGED <<pc, exitCode, stderr>>
                  ELSE /\ stderr' = Append(stderr, "Error: Error saving file")
                       /\ exitCode' = Some(1)
                       /\ pc' = "done"
                       /\ UNCHANGED <<saved, idx>>
    /\ UNCHANGED <<transcript_data, include_timestamps, chunk_size, output, video_id,
                   formatted_text>>

\* the loop of line 185 is exhausted: main returns
MainChunksDone ==
    /\ pc = "main_save"
    /\ formatted_text.kind = "list"
    /\ idx > Len(formatted_text.chunks)
    /\ exitCode' = Some(0)
    /\ pc' = "done"
    /\ UNCHANGED <<transcript_data, include_timestamps, chunk_size, output, video_id,
                   formatted_text, fs, saved, attempts, stderr, idx>>

\* lines 195-200, and 202-204 when save_to_file raises
MainSaveWhole ==
    /\ pc = "main_save"
    /\ formatted_text.kind = "str"
    /\ \E outcome \in SaveOutcomes(formatted_text.text) :
         LET r == save_to_file(fs, formatted_text.text, output.name, video_id, outcome)
         IN /\ fs' = r.files
            /\ IF r.ok
               THEN /\ saved' = Append(saved, r.name)
                    /\ exitCode' = Some(0)
                    /\ UNCHANGED stderr
               ELSE /\ stderr' = Append(stderr, "Error: Error saving file")
                    /\ exitCode' = Some(1)
                    /\ UNCHANGED saved
    /\ pc' = "done"
    /\ UNCHANGED <<transcript_data, include_timestamps, chunk_size, output, video_id,
                   formatted_text, attempts, idx>>

Words == SeqsUpTo({"a", "b"}, 0, MaxWordLen)

Outputs == {NoOutput} \cup
           {[given |-> TRUE, name |-> nm] :
               nm \in {<<"o", ".", "t">>, <<"o">>, <<".", "o">>, <<"d", ".", "x", "/", "o">>}}

InitMain ==
    /\ transcript_data \in {<<[start |-> 0, text |-> w]>> : w \in Words}
    /\ include_timestamps \in BOOLEAN
    /\ chunk_size \in ChunkSizes
    /\ output \in Outputs
    /\ video_id = <<"dQw4w9WgXcQ">>
    /\ formatted_text = Unformatted
    /\ fs = {} /\ saved = <<>> /\ attempts = <<>> /\ exitCode = Absent /\ stderr = <<>>
    /\ pc = "main_format"
    /\ idx = 0
    /\ CascadeUnused
    /\ TimestampIdle

NextMain ==
    \/ MainFormat /\ UNCHANGED <<cascadeVars, tsVars>>
    \/ MainSaveChunk /\ UNCHANGED <<cascadeVars, tsVars>>
    \/ MainChunksDone /\ UNCHANGED <<cascadeVars, tsVars>>
    \/ MainSaveWhole /\ UNCHANGED <<cascadeVars, tsVars>>

SpecMain == InitMain /\ [][NextMain]_vars

----------------------------------------------------------------------------
(* Properties of the chunked output of main                                *)

Chunked == formatted_text.kind = "list"

\* C7: the chunks are handed to save_to_file one at a time in index order;
\* when the write of chunk k fails, exactly the chunks 1..k-1 are persisted,
\* no later chunk is attempted, one error line is printed and the exit code
\* is 1; exit code 0 is reached only with every chunk persisted.
C7_PrefixPersistedOnFailure ==
    (pc = "done" /\ Chunked) =>
        LET chunks == formatted_text.chunks
            n == Len(chunks)
            k == Len(attempts)
        IN /\ k <= n
           /\ \A j \in 1..k : attempts[j].index = j
           /\ IF exitCode = Some(0)
              THEN k = n /\ Len(saved) = n /\ stderr = <<>>
              ELSE exitCode = Some(1) /\ Len(stderr) = 1 /\ k >= 1 /\ Len(saved) = k - 1
           /\ \A j \in 1..Len(saved) :
                 /\ saved[j] = attempts[j].name
                 /\ [name |-> saved[j], content |-> chunks[j]] \in fs
           /\ \A f \in fs : \E j \in 1..k : f.name = attempts[j].name
           /\ \A f, g \in fs : f.name = g.name => f = g
           /\ (k >= 1 /\ Len(saved) < k) =>
                 [name |-> attempts[k].name, content |-> chunks[k]] \notin fs

C7_Witness ==
    /\ pc = "done" /\ Chunked
    /\ Len(formatted_text.chunks) >= 3
    /\ Len(attempts) = 2 /\ Len(saved) = 1
    /\ exitCode = Some(1)

\* the name the interface gives to chunk i
ExpectedChunkName(i) ==
    IF output.given
    THEN LET sp == splitext(output.name)
         IN sp.base \o <<"_chunk_">> \o Digits(i) \o sp.ext
    ELSE <<"transcript_chunk_">> \o Digits(i) \o <<"_">> \o video_id \o <<".", "txt">>

\* C8: chunk i of n >= 1 is written to {base}_chunk_{i}{ext} when -o is
\* given and to transcript_chunk_{i}_{video_id}.txt when it is not, for
\* every n including 1, and the names of the chunks are pairwise distinct.
C8_ChunkFilenames ==
    Chunked =>
        /\ \A j \in 1..Len(attempts) : attempts[j].name = ExpectedChunkName(attempts[j].index)
        /\ \A i, j \in 1..Len(attempts) : i # j => attempts[i].name # attempts[j].name

====
